---- MODULE Spec2Model ----
(***************************************************************************)
(* Voice Detection API: the scoring engine of VoiceDetector                *)
(* (voice_detector.py), the decoder/normaliser AudioProcessor              *)
(* (audio_processor.py) and the /detect and /detect/batch request flows,   *)
(* with their validation and error mapping (main.py).                      *)
(*                                                                         *)
(* Numbers.  The program computes in binary floating point; the model      *)
(* computes exactly, in integers:                                          *)
(*   - feature values and thresholds are in units of 1/10000 (0.15 is      *)
(*     1500);                                                              *)
(*   - rule weights are in units of 1/1000 (2.0 is 2000); a phoneme_weight *)
(*     is in units of 1/100 (1.08 is 108) and the factor 1.8 in units of   *)
(*     1/10, so that 1.8 * phoneme_weight is 18 * 108 = 1944;              *)
(*   - a probability is the exact fraction [num, den] and is compared by   *)
(*     cross-multiplication;                                               *)
(*   - a duration is in milliseconds, as pydub's len(audio) is.            *)
(* For the default tables the exact values and the floating-point values   *)
(* give the same comparisons against 0.5 and the same 4-decimal rounding   *)
(* for all 2^7 rule outcomes and all multipliers.                          *)
(***************************************************************************)
EXTENDS Integers, Sequences, FiniteSets, TLC

VARIABLES
    thresholds,        \* VoiceDetector.thresholds
    language_models,   \* VoiceDetector.language_models
    features,          \* the feature vector handed to the scorer
    language,          \* detect's language argument
    ai_probability,    \* detect's local ai_probability
    result,            \* detect's return value
    request,           \* the VoiceDetectionRequest being served by /detect
    processed,         \* what process_audio returned or raised for it
    calls,             \* the core operations detect_voice has invoked for it
    response,          \* the HTTP response of /detect
    signal,            \* the audio_data handed to _extract_features
    extracted,         \* what _extract_features returned or raised for it
    audio_text,        \* the audio_data string of the posted body, before validation
    fault,             \* the internal failure serving the request runs into, if any
    batch,             \* the samples of the BatchDetectionRequest posted to /detect/batch
    batch_calls,       \* the indices of the samples detect_batch handed to detect_voice
    batch_response,    \* the HTTP response of /detect/batch
    emphasized,        \* what _apply_preemphasis returned or raised for the signal
    zero_crossing_rate,\* what _calculate_zero_crossing_rate returned for the signal
    workers,           \* the requests in flight on the shared detector and processor
    pc                 \* where the modelled caller stands

\* The variables of the HTTP boundary, of the batch endpoint and of the
\* sample-level helpers.
httpVars == <<audio_text, fault>>
batchVars == <<batch, batch_calls, batch_response>>
sampleVars == <<emphasized, zero_crossing_rate>>

vars == <<thresholds, language_models, features, language, ai_probability, result,
          request, processed, calls, response, signal, extracted, audio_text, fault,
          batch, batch_calls, batch_response, emphasized, zero_crossing_rate,
          workers, pc>>

----------------------------------------------------------------------------
(* VoiceDetector.__init__                                                  *)

DefaultThresholds ==
    [ spectral_flatness_threshold |-> 1500,
      harmonic_ratio_threshold    |-> 7500,
      zero_crossing_rate_std      |-> 200,
      jitter_threshold            |-> 50,
      shimmer_threshold           |-> 500,
      mel_cepstral_distortion     |-> 25000 ]

DefaultLanguageModels ==
    [ tamil     |-> [phoneme_weight |-> 110],
      english   |-> [phoneme_weight |-> 100],
      hindi     |-> [phoneme_weight |-> 105],
      malayalam |-> [phoneme_weight |-> 110],
      telugu    |-> [phoneme_weight |-> 108] ]

\* The threshold of the energy_entropy rule, a literal of the scorer (3.5).
EnergyEntropyThreshold == 35000

----------------------------------------------------------------------------
(* Exact fractions                                                         *)

Frac(n, d) == [num |-> n, den |-> d]
Half == Frac(1, 2)
FracGT(a, b) == a.num * b.den > b.num * a.den
FracEq(a, b) == a.num * b.den = b.num * a.den
FracLE(a, b) == a.num * b.den <= b.num * a.den
OneMinus(a) == Frac(a.den - a.num, a.den)

\* round(x, digits) of a non-negative x: the nearest multiple of 1/scale, ties to
\* the even one, as a count of 1/scale units.
RoundTo(a, scale) ==
    LET q == (a.num * scale) \div a.den
        r == (a.num * scale) % a.den
    IN  IF 2 * r > a.den \/ (2 * r = a.den /\ q % 2 = 1) THEN q + 1 ELSE q

----------------------------------------------------------------------------
(* Feature vectors.  The scorer, the explanation and the indicator lists   *)
(* read seven of the thirteen features; the six diagnostic ones            *)
(* (spectral_centroid, spectral_rolloff, zero_crossing_rate,               *)
(* dynamic_range, signal_kurtosis, signal_skewness) are read by nothing    *)
(* downstream and are left out of the vector.  Each scored feature takes   *)
(* a value just below, exactly at, or just above its threshold.            *)

Around(t) == {t - 1, t, t + 1}

FeatureVectors ==
    [ spectral_flatness : Around(DefaultThresholds.spectral_flatness_threshold),
      harmonic_ratio    : Around(DefaultThresholds.harmonic_ratio_threshold),
      zcr_std           : Around(DefaultThresholds.zero_crossing_rate_std),
      jitter            : Around(DefaultThresholds.jitter_threshold),
      shimmer           : Around(DefaultThresholds.shimmer_threshold),
      mfcc_variance     : Around(DefaultThresholds.mel_cepstral_distortion),
      energy_entropy    : Around(EnergyEntropyThreshold) ]

\* Language codes a caller of detect can pass: the five of language_models and
\* two the table does not know.
LanguageCodes ==
    {"tamil", "english", "hindi", "malayalam", "telugu", "french", ""}

----------------------------------------------------------------------------
(* VoiceDetector._calculate_ai_probability                                 *)

\* self.language_models.get(language, {}).get("phoneme_weight", 1.0)
LangWeight(lang) ==
    IF lang \in DOMAIN language_models
    THEN language_models[lang].phoneme_weight
    ELSE 100

\* Variants of the accumulation with one slip each, used to show that the
\* properties below depend on the rule table: a non-strict spectral_flatness
\* comparison; total_weight accumulated only when the rule is satisfied; the
\* language multiplier left out of total_weight; the multiplier applied to
\* the jitter rule as well.
ScoreAccumulators_NonStrict(f, lang) ==
    LET lang_weight == LangWeight(lang)
        s1 == IF f.spectral_flatness >= thresholds.spectral_flatness_threshold
              THEN 2000 ELSE 0
        s2 == IF f.harmonic_ratio > thresholds.harmonic_ratio_threshold
              THEN s1 + 1500 ELSE s1
        s3 == IF f.zcr_std < thresholds.zero_crossing_rate_std
              THEN s2 + 18 * lang_weight ELSE s2
        s4 == IF f.jitter < thresholds.jitter_threshold
              THEN s3 + 2200 ELSE s3
        s5 == IF f.shimmer < thresholds.shimmer_threshold
              THEN s4 + 2000 ELSE s4
        s6 == IF f.mfcc_variance < thresholds.mel_cepstral_distortion
              THEN s5 + 1500 ELSE s5
        s7 == IF f.energy_entropy < EnergyEntropyThreshold
              THEN s6 + 1000 ELSE s6
    IN  [ai_score |-> s7, total_weight |-> 2000 + 1500 + 18 * lang_weight + 2200 + 2000 + 1500 + 1000]

ScoreAccumulators_TotalInsideIf(f, lang) ==
    LET lang_weight == LangWeight(lang)
        s1 == IF f.spectral_flatness > thresholds.spectral_flatness_threshold
              THEN 2000 ELSE 0
        s2 == IF f.harmonic_ratio > thresholds.harmonic_ratio_threshold
              THEN s1 + 1500 ELSE s1
        s3 == IF f.zcr_std < thresholds.zero_crossing_rate_std
              THEN s2 + 18 * lang_weight ELSE s2
        s4 == IF f.jitter < thresholds.jitter_threshold
              THEN s3 + 2200 ELSE s3
        s5 == IF f.shimmer < thresholds.shimmer_threshold
              THEN s4 + 2000 ELSE s4
        s6 == IF f.mfcc_variance < thresholds.mel_cepstral_distortion
              THEN s5 + 1500 ELSE s5
        s7 == IF f.energy_entropy < EnergyEntropyThreshold
              THEN s6 + 1000 ELSE s6
    IN  [ai_score |-> s7, total_weight |-> s7]

ScoreAccumulators_UnweightedTotal(f, lang) ==
    LET lang_weight == LangWeight(lang)
        s1 == IF f.spectral_flatness > thresholds.spectral_flatness_threshold
              THEN 2000 ELSE 0
        s2 == IF f.harmonic_ratio > thresholds.harmonic_ratio_threshold
              THEN s1 + 1500 ELSE s1
        s3 == IF f.zcr_std < thresholds.zero_crossing_rate_std
              THEN s2 + 18 * lang_weight ELSE s2
        s4 == IF f.jitter < thresholds.jitter_threshold
              THEN s3 + 2200 ELSE s3
        s5 == IF f.shimmer < thresholds.shimmer_threshold
              THEN s4 + 2000 ELSE s4
        s6 == IF f.mfcc_variance < thresholds.mel_cepstral_distortion
              THEN s5 + 1500 ELSE s5
        s7 == IF f.energy_entropy < EnergyEntropyThreshold
              THEN s6 + 1000 ELSE s6
    IN  [ai_score |-> s7, total_weight |-> 2000 + 1500 + 1800 + 2200 + 2000 + 1500 + 1000]

ScoreAccumulators_WeightedJitter(f, lang) ==
    LET lang_weight == LangWeight(lang)
        s1 == IF f.spectral_flatness > thresholds.spectral_flatness_threshold
              THEN 2000 ELSE 0
        s2 == IF f.harmonic_ratio > thresholds.harmonic_ratio_threshold
              THEN s1 + 1500 ELSE s1
        s3 == IF f.zcr_std < thresholds.zero_crossing_rate_std
              THEN s2 + 18 * lang_weight ELSE s2
        s4 == IF f.jitter < thresholds.jitter_threshold
              THEN s3 + 22 * lang_weight ELSE s3
        s5 == IF f.shimmer < thresholds.shimmer_threshold
              THEN s4 + 2000 ELSE s4
        s6 == IF f.mfcc_variance < thresholds.mel_cepstral_distortion
              THEN s5 + 1500 ELSE s5
        s7 == IF f.energy_entropy < EnergyEntropyThreshold
              THEN s6 + 1000 ELSE s6
    IN  [ai_score |-> s7, total_weight |-> 2000 + 1500 + 18 * lang_weight + 22 * lang_weight + 2000 + 1500 + 1000]

\* The two accumulators after the seven rules, in the order the code runs them.
ScoreAccumulators(f, lang) ==
    LET lang_weight == LangWeight(lang)
        s1 == IF f.spectral_flatness > thresholds.spectral_flatness_threshold
              THEN 2000 ELSE 0
        t1 == 2000
        s2 == IF f.harmonic_ratio > thresholds.harmonic_ratio_threshold
              THEN s1 + 1500 ELSE s1
        t2 == t1 + 1500
        s3 == IF f.zcr_std < thresholds.zero_crossing_rate_std
              THEN s2 + 18 * lang_weight ELSE s2
        t3 == t2 + 18 * lang_weight
        s4 == IF f.jitter < thresholds.jitter_threshold
              THEN s3 + 2200 ELSE s3
        t4 == t3 + 2200
        s5 == IF f.shimmer < thresholds.shimmer_threshold
              THEN s4 + 2000 ELSE s4
        t5 == t4 + 2000
        s6 == IF f.mfcc_variance < thresholds.mel_cepstral_distortion
              THEN s5 + 1500 ELSE s5
        t6 == t5 + 1500
        s7 == IF f.energy_entropy < EnergyEntropyThreshold
              THEN s6 + 1000 ELSE s6
        t7 == t6 + 1000
    IN  [ai_score |-> s7, total_weight |-> t7]

_calculate_ai_probability(f, lang) ==
    LET acc == ScoreAccumulators(f, lang)
    IN  IF acc.total_weight > 0
        THEN Frac(acc.ai_score, acc.total_weight)
        ELSE Half

----------------------------------------------------------------------------
(* VoiceDetector._generate_explanation, _get_ai_indicators,                *)
(* _get_human_indicators                                                   *)

AppendIf(cond, seq, e) == IF cond THEN Append(seq, e) ELSE seq

\* seq[:3]
FirstThree(seq) == SubSeq(seq, 1, IF Len(seq) < 3 THEN Len(seq) ELSE 3)

\* A variant with one slip: the reason list is joined whole, not cut to its
\* first three phrases.
_generate_explanation_AllReasons(f, p, lang) ==
    LET classification == IF FracGT(p, Half) THEN "AI-generated" ELSE "human-generated"
        confidence == IF FracGT(p, Half) THEN p ELSE OneMinus(p)
        r1 == AppendIf(f.spectral_flatness > thresholds.spectral_flatness_threshold,
                       <<>>, "uniform spectral distribution")
        r2 == AppendIf(f.jitter < thresholds.jitter_threshold,
                       r1, "minimal pitch variation")
        r3 == AppendIf(f.shimmer < thresholds.shimmer_threshold,
                       r2, "consistent amplitude")
        r4 == AppendIf(f.zcr_std < thresholds.zero_crossing_rate_std,
                       r3, "stable zero-crossing rate")
        r5 == AppendIf(f.harmonic_ratio > thresholds.harmonic_ratio_threshold,
                       r4, "high harmonic content")
        reasons == IF r5 = <<>>
                   THEN <<"natural prosodic variation", "organic spectral characteristics">>
                   ELSE r5
    IN  [ classification |-> classification,
          confidence     |-> RoundTo(confidence, 1000),
          language       |-> lang,
          reasons        |-> reasons,
          closing        |-> IF FracGT(p, Half)
                             THEN "These patterns are typical of synthetic voice generation systems."
                             ELSE "These characteristics are consistent with natural human speech production." ]

\* The explanation is a templated sentence; the model keeps the parts the
\* template is filled with: the class word, the confidence as printed by
\* {confidence:.1%} (a count of tenths of a percent), the language, the joined
\* reason phrases and the closing sentence.
_generate_explanation(f, p, lang) ==
    LET classification == IF FracGT(p, Half) THEN "AI-generated" ELSE "human-generated"
        confidence == IF FracGT(p, Half) THEN p ELSE OneMinus(p)
        r1 == AppendIf(f.spectral_flatness > thresholds.spectral_flatness_threshold,
                       <<>>, "uniform spectral distribution")
        r2 == AppendIf(f.jitter < thresholds.jitter_threshold,
                       r1, "minimal pitch variation")
        r3 == AppendIf(f.shimmer < thresholds.shimmer_threshold,
                       r2, "consistent amplitude")
        r4 == AppendIf(f.zcr_std < thresholds.zero_crossing_rate_std,
                       r3, "stable zero-crossing rate")
        r5 == AppendIf(f.harmonic_ratio > thresholds.harmonic_ratio_threshold,
                       r4, "high harmonic content")
        reasons == IF r5 = <<>>
                   THEN <<"natural prosodic variation", "organic spectral characteristics">>
                   ELSE r5
    IN  [ classification |-> classification,
          confidence     |-> RoundTo(confidence, 1000),
          language       |-> lang,
          reasons        |-> FirstThree(reasons),
          closing        |-> IF FracGT(p, Half)
                             THEN "These patterns are typical of synthetic voice generation systems."
                             ELSE "These characteristics are consistent with natural human speech production." ]

\* A variant with one slip: the harmonic_ratio comparison points the wrong way.
_get_ai_indicators_HarmonicBelow(f) ==
    LET i1 == AppendIf(f.spectral_flatness > thresholds.spectral_flatness_threshold,
                       <<>>, "High spectral uniformity")
        i2 == AppendIf(f.jitter < thresholds.jitter_threshold,
                       i1, "Low pitch jitter")
        i3 == AppendIf(f.shimmer < thresholds.shimmer_threshold,
                       i2, "Low amplitude shimmer")
        i4 == AppendIf(f.zcr_std < thresholds.zero_crossing_rate_std,
                       i3, "Consistent zero-crossing rate")
        i5 == AppendIf(f.harmonic_ratio < thresholds.harmonic_ratio_threshold,
                       i4, "Strong harmonic structure")
    IN  i5

_get_ai_indicators(f) ==
    LET i1 == AppendIf(f.spectral_flatness > thresholds.spectral_flatness_threshold,
                       <<>>, "High spectral uniformity")
        i2 == AppendIf(f.jitter < thresholds.jitter_threshold,
                       i1, "Low pitch jitter")
        i3 == AppendIf(f.shimmer < thresholds.shimmer_threshold,
                       i2, "Low amplitude shimmer")
        i4 == AppendIf(f.zcr_std < thresholds.zero_crossing_rate_std,
                       i3, "Consistent zero-crossing rate")
        i5 == AppendIf(f.harmonic_ratio > thresholds.harmonic_ratio_threshold,
                       i4, "Strong harmonic structure")
    IN  i5

\* A variant with one slip: the jitter comparison is not strict, so a jitter
\* equal to its threshold counts as natural pitch variation.
_get_human_indicators_AtThreshold(f) ==
    LET i1 == AppendIf(f.jitter >= thresholds.jitter_threshold,
                       <<>>, "Natural pitch variation")
        i2 == AppendIf(f.shimmer > thresholds.shimmer_threshold,
                       i1, "Natural amplitude variation")
        i3 == AppendIf(f.zcr_std > thresholds.zero_crossing_rate_std,
                       i2, "Variable articulation")
        i4 == AppendIf(f.energy_entropy > EnergyEntropyThreshold,
                       i3, "Dynamic energy distribution")
    IN  i4

_get_human_indicators(f) ==
    LET i1 == AppendIf(f.jitter > thresholds.jitter_threshold,
                       <<>>, "Natural pitch variation")
        i2 == AppendIf(f.shimmer > thresholds.shimmer_threshold,
                       i1, "Natural amplitude variation")
        i3 == AppendIf(f.zcr_std > thresholds.zero_crossing_rate_std,
                       i2, "Variable articulation")
        i4 == AppendIf(f.energy_entropy > EnergyEntropyThreshold,
                       i3, "Dynamic energy distribution")
    IN  i4

----------------------------------------------------------------------------
(* VoiceDetector.detect, from the feature vector on                        *)

\* Variants with one slip each: a tie classified as ai_generated; the
\* confidence taken to be the probability whatever the class.
Classify_AtLeastHalf(p) == IF FracGT(p, Half) \/ FracEq(p, Half)
                           THEN "ai_generated" ELSE "human_generated"

ConfidenceScore_AlwaysProbability(p, classification) == p

Classify(p) == IF FracGT(p, Half) THEN "ai_generated" ELSE "human_generated"

ConfidenceScore(p, classification) ==
    IF classification = "ai_generated" THEN p ELSE OneMinus(p)

\* {k: round(float(v), 4) for k, v in features.items()}
RoundedFeatures(f) == [k \in DOMAIN f |-> RoundTo(Frac(f[k], 10000), 10000)]

\* The dictionary detect returns.  has_detailed_analysis tells whether the
\* "detailed_analysis" key is in it; without it the three detailed fields are
\* empty.
DetectResult(f, lang, include_features) ==
    LET p == _calculate_ai_probability(f, lang)
        classification == Classify(p)
        confidence_score == ConfidenceScore(p, classification)
    IN  [ classification        |-> classification,
          confidence_score      |-> RoundTo(confidence_score, 10000),
          explanation           |-> _generate_explanation(f, p, lang),
          has_detailed_analysis |-> include_features,
          detailed_features     |-> IF include_features THEN <<RoundedFeatures(f)>> ELSE <<>>,
          ai_indicators         |-> IF include_features THEN _get_ai_indicators(f) ELSE <<>>,
          human_indicators      |-> IF include_features THEN _get_human_indicators(f) ELSE <<>> ]

\* Before any call of _extract_features: no signal, nothing extracted.
NoSignal == [pattern |-> <<>>, repeats |-> 1]

NotExtracted == [state |-> "not called", features |-> <<>>]

NoResult ==
    [ classification        |-> "",
      confidence_score      |-> 0,
      explanation           |-> [ classification |-> "", confidence |-> 0, language |-> "",
                                  reasons |-> <<>>, closing |-> "" ],
      has_detailed_analysis |-> FALSE,
      detailed_features     |-> <<>>,
      ai_indicators         |-> <<>>,
      human_indicators      |-> <<>> ]

----------------------------------------------------------------------------
(* AudioProcessor (audio_processor.py)                                     *)

\* AudioProcessor.__init__; the two duration limits in milliseconds.
target_sample_rate == 16000
max_duration == 300000
min_duration == 500

\* The bytes of a request, by what decoding them yields: whether the container
\* decodes at all, the length pydub reports (len(audio), in milliseconds), the
\* channel count and native frame rate, and the feature vector of the clip's
\* samples (feature extraction is a function of the samples, which the model
\* does not compute; see the feature extractor below for its fallbacks).
Durations == {0, 499, 500, 501, 299999, 300000, 300001}

ClipFeatures(d) ==
    [spectral_flatness |-> DefaultThresholds.spectral_flatness_threshold + d,
     harmonic_ratio    |-> DefaultThresholds.harmonic_ratio_threshold + d,
     zcr_std           |-> DefaultThresholds.zero_crossing_rate_std + d,
     jitter            |-> DefaultThresholds.jitter_threshold + d,
     shimmer           |-> DefaultThresholds.shimmer_threshold + d,
     mfcc_variance     |-> DefaultThresholds.mel_cepstral_distortion + d,
     energy_entropy    |-> EnergyEntropyThreshold + d]

ClipFeatureVectors == {ClipFeatures(d) : d \in {-1, 0, 1}}

NoFeatures == ClipFeatures(0)

UndecodableBytes ==
    [decodable |-> FALSE, duration_ms |-> 0, channels |-> 1,
     frame_rate |-> target_sample_rate, fv |-> NoFeatures]

AudioBytes ==
    {UndecodableBytes} \cup
    [decodable : {TRUE}, duration_ms : Durations, channels : {1, 2},
     frame_rate : {target_sample_rate, 44100}, fv : ClipFeatureVectors]

\* An internal failure that is none of the decode, duration and validation
\* failures: the step of the pipeline that raises it and the class of the
\* exception ("RuntimeError" stands for every class that is not a ValueError).
NoFault == [step |-> "none", error |-> ""]

FaultSteps == {"process_audio", "_extract_features", "_calculate_ai_probability"}

Faults == {NoFault} \cup [step : FaultSteps, error : {"RuntimeError", "ValueError"}]

NotProcessed ==
    [state |-> "not called", sample_rate |-> 0, duration_ms |-> 0,
     channels |-> 0, frame_rate |-> 0, fv |-> NoFeatures, error |-> "", message |-> <<>>]

\* return audio_data, self.target_sample_rate, duration
Returned(audio, duration) ==
    [state |-> "returned", sample_rate |-> target_sample_rate, duration_ms |-> duration,
     channels |-> audio.channels, frame_rate |-> audio.frame_rate, fv |-> audio.fv,
     error |-> "", message |-> <<>>]

\* except Exception as e: raise ValueError(f"Failed to process audio file: {str(e)}")
RaisedInTry(text) ==
    [state |-> "raised", sample_rate |-> 0, duration_ms |-> 0,
     channels |-> 0, frame_rate |-> 0, fv |-> NoFeatures,
     error |-> "ValueError", message |-> <<"Failed to process audio file: ", text>>]

\* A variant with one slip: the lower duration limit is compared with <=, so
\* a clip of exactly 0.5 s is rejected.
process_audio_RejectsBoundary(audio_bytes, flt) ==
    IF ~audio_bytes.decodable
    THEN RaisedInTry("could not decode")
    ELSE LET duration == audio_bytes.duration_ms
         IN  IF duration <= min_duration
             THEN RaisedInTry("Audio too short")
             ELSE IF duration > max_duration
             THEN RaisedInTry("Audio too long")
             ELSE IF flt.step = "process_audio"
             THEN RaisedInTry("internal failure")
             ELSE LET mono      == IF audio_bytes.channels > 1
                                   THEN [audio_bytes EXCEPT !.channels = 1]
                                   ELSE audio_bytes
                      resampled == IF mono.frame_rate # target_sample_rate
                                   THEN [mono EXCEPT !.frame_rate = target_sample_rate]
                                   ELSE mono
                  IN  Returned(resampled, duration)

\* process_audio; flt is the failure, if any, that one of the normaliser steps
\* (lines 59-70) raises, which the except clause of lines 74-76 wraps like
\* every other exception of the body.
process_audio(audio_bytes, flt) ==
    IF ~audio_bytes.decodable
    THEN RaisedInTry("could not decode")
    ELSE LET duration == audio_bytes.duration_ms
         IN  IF duration < min_duration
             THEN RaisedInTry("Audio too short")
             ELSE IF duration > max_duration
             THEN RaisedInTry("Audio too long")
             ELSE IF flt.step = "process_audio"
             THEN RaisedInTry("internal failure")
             ELSE LET mono      == IF audio_bytes.channels > 1
                                   THEN [audio_bytes EXCEPT !.channels = 1]
                                   ELSE audio_bytes
                      resampled == IF mono.frame_rate # target_sample_rate
                                   THEN [mono EXCEPT !.frame_rate = target_sample_rate]
                                   ELSE mono
                  IN  Returned(resampled, duration)

----------------------------------------------------------------------------
(* The /detect endpoint (main.py)                                          *)

NoLanguage == "None"

RequestLanguages == {NoLanguage, "tamil", "english", "hindi", "malayalam", "telugu"}

Requests ==
    [audio_data : AudioBytes, language : RequestLanguages, include_features : BOOLEAN]

NoRequest ==
    [audio_data |-> UndecodableBytes, language |-> NoLanguage, include_features |-> FALSE]

NoResponse ==
    [status |-> 0, detail |-> <<>>, classification |-> "", confidence_score |-> 0,
     language_detected |-> "", audio_duration_seconds |-> 0,
     has_detailed_analysis |-> FALSE]

\* A variant that guesses from its input: a clip whose spectral flatness is
\* above the threshold is taken for Hindi.
detect_language_FromClip(audio_data, sample_rate) ==
    IF audio_data.spectral_flatness > DefaultThresholds.spectral_flatness_threshold
    THEN "hindi"
    ELSE "english"

\* VoiceDetector.detect_language
detect_language(audio_data, sample_rate) == "english"

\* except ValueError -> 400 "Invalid request: ..."; except Exception -> 500
\* "Error processing audio: ...".
ErrorResponse(error, message) ==
    [NoResponse EXCEPT
        !.status = IF error = "ValueError" THEN 400 ELSE 500,
        !.detail = IF error = "ValueError"
                   THEN <<"Invalid request: ">> \o message
                   ELSE <<"Error processing audio: ">> \o message]

\* The response dictionary of a served request; audio_duration_seconds is
\* round(duration, 2), a count of hundredths of a second.
OkResponse(req, res, lang, duration) ==
    [NoResponse EXCEPT
        !.status = 200,
        !.classification = res.classification,
        !.confidence_score = res.confidence_score,
        !.language_detected = lang,
        !.audio_duration_seconds = RoundTo(Frac(duration, 1000), 100),
        !.has_detailed_analysis = req.include_features /\ res.has_detailed_analysis]

\* The values of the variables that a specification does not use.
NoText == <<>>

NoBatch == <<>>

NoBatchResponse == [status |-> 0, detail |-> <<>>, results |-> <<>>, total_samples |-> 0]

NotEmphasized == [state |-> "not called", samples |-> <<>>]

NoRate == [state |-> "not called", value |-> Frac(0, 1)]

NoWorkers == <<>>

\* The core operations detect_voice invokes up to _extract_features.
CallsUpToDetect(req) ==
    <<"process_audio">>
    \o (IF req.language = NoLanguage THEN <<"detect_language">> ELSE <<>>)
    \o <<"detect", "_extract_features">>

\* detector.detect(...) on what process_audio returned and the response built
\* from its result (main.py:150-175); a failure inside detect reaches the
\* except clauses of detect_voice.
DetectAndRespond(req, flt, outcome, lang) ==
    IF flt.step = "_extract_features"
    THEN [processed |-> outcome, calls |-> CallsUpToDetect(req),
          features |-> NoFeatures, language |-> lang, ai_probability |-> Half,
          result |-> NoResult,
          response |-> ErrorResponse(flt.error, <<"internal failure">>)]
    ELSE IF flt.step = "_calculate_ai_probability"
    THEN [processed |-> outcome,
          calls |-> CallsUpToDetect(req) \o <<"_calculate_ai_probability">>,
          features |-> outcome.fv, language |-> lang, ai_probability |-> Half,
          result |-> NoResult,
          response |-> ErrorResponse(flt.error, <<"internal failure">>)]
    ELSE [processed |-> outcome,
          calls |-> CallsUpToDetect(req)
                    \o <<"_calculate_ai_probability", "_generate_explanation">>,
          features |-> outcome.fv, language |-> lang,
          ai_probability |-> _calculate_ai_probability(outcome.fv, lang),
          result |-> DetectResult(outcome.fv, lang, req.include_features),
          response |-> OkResponse(req,
                                  DetectResult(outcome.fv, lang, req.include_features),
                                  lang, outcome.duration_ms)]

\* detect_voice after process_audio returned or raised (main.py:143-188).
AfterProcessAudio(req, flt, outcome) ==
    IF outcome.state = "raised"
    THEN [processed |-> outcome, calls |-> <<"process_audio">>,
          features |-> NoFeatures, language |-> "", ai_probability |-> Half,
          result |-> NoResult,
          response |-> ErrorResponse(outcome.error, outcome.message)]
    ELSE DetectAndRespond(req, flt, outcome,
                          IF req.language = NoLanguage
                          THEN detect_language(outcome.fv, outcome.sample_rate)
                          ELSE req.language)

\* detect_voice, the whole handler, as what it computes for one request: the
\* outcome of process_audio, the core operations it invoked, the arguments
\* and locals of detect as far as detect got, and the response (an
\* HTTPException is a response whose status is not 200).
detect_voice(req, flt) ==
    AfterProcessAudio(req, flt, process_audio(req.audio_data, flt))

Init ==
    /\ thresholds = DefaultThresholds
    /\ language_models = DefaultLanguageModels
    /\ features = NoFeatures
    /\ language = ""
    /\ ai_probability = Half
    /\ result = NoResult
    /\ request = NoRequest
    /\ processed = NotProcessed
    /\ calls = <<>>
    /\ response = NoResponse
    /\ signal = NoSignal
    /\ extracted = NotExtracted
    /\ audio_text = NoText
    /\ fault = NoFault
    /\ batch = NoBatch
    /\ batch_calls = <<>>
    /\ batch_response = NoBatchResponse
    /\ emphasized = NotEmphasized
    /\ zero_crossing_rate = NoRate
    /\ workers = NoWorkers
    /\ pc = "idle"

\* A client posts a request to /detect that passes validation.
Receive(req) ==
    /\ pc = "idle"
    /\ request' = req
    /\ pc' = "received"
    /\ UNCHANGED <<thresholds, language_models, features, language, ai_probability,
                   result, processed, calls, response, signal, extracted>>
    /\ UNCHANGED <<httpVars, batchVars, sampleVars, workers>>

\* detect_voice, the whole handler.
DetectVoice ==
    /\ pc = "received"
    /\ LET served == detect_voice(request, fault)
       IN  /\ processed' = served.processed
           /\ calls' = served.calls
           /\ features' = served.features
           /\ language' = served.language
           /\ ai_probability' = served.ai_probability
           /\ result' = served.result
           /\ response' = served.response
    /\ pc' = "responded"
    /\ UNCHANGED <<thresholds, language_models, request, signal, extracted>>
    /\ UNCHANGED <<httpVars, batchVars, sampleVars, workers>>

\* The response is sent; nothing of the request is kept.
Reply ==
    /\ pc = "responded"
    /\ features' = NoFeatures
    /\ language' = ""
    /\ ai_probability' = Half
    /\ result' = NoResult
    /\ request' = NoRequest
    /\ processed' = NotProcessed
    /\ calls' = <<>>
    /\ response' = NoResponse
    /\ audio_text' = NoText
    /\ fault' = NoFault
    /\ batch' = NoBatch
    /\ batch_calls' = <<>>
    /\ batch_response' = NoBatchResponse
    /\ pc' = "idle"
    /\ UNCHANGED <<thresholds, language_models, signal, extracted, sampleVars, workers>>

Next ==
    \/ \E req \in Requests : Receive(req)
    \/ DetectVoice
    \/ Reply

Spec == Init /\ [][Next]_vars

----------------------------------------------------------------------------
(* The HTTP boundary of /detect (main.py): the body is validated before   *)
(* the handler runs, and the request may run into an internal failure.     *)

\* The characters of an audio_data string, by their class: "A" is a character
\* of the base64 alphabet, "=" the pad and "!" a character of neither.
Base64Chars == {"A", "=", "!"}

MaxTextLen == 4

Base64Texts == UNION {[1..n -> Base64Chars] : n \in 0..MaxTextLen}

\* base64.b64decode(v) as validate_base64 calls it, with validate left at its
\* default: characters outside the alphabet are discarded, a pad that does not
\* complete a quad is skipped, a pad sequence that completes a quad ends the
\* parse, and the call raises only if the data characters end inside a quad.
RECURSIVE B64Scan(_, _, _, _)
B64Scan(text, i, quad_pos, pads) ==
    IF i > Len(text)
    THEN IF quad_pos = 0 THEN "decoded" ELSE "raised"
    ELSE IF text[i] = "="
    THEN IF quad_pos >= 2 /\ quad_pos + pads + 1 >= 4
         THEN "decoded"
         ELSE B64Scan(text, i + 1, quad_pos, IF quad_pos >= 2 THEN pads + 1 ELSE pads)
    ELSE IF text[i] = "!"
    THEN B64Scan(text, i + 1, quad_pos, pads)
    ELSE B64Scan(text, i + 1, (quad_pos + 1) % 4, 0)

b64decode(text) == B64Scan(text, 1, 0, 0)

\* VoiceDetectionRequest.validate_base64
validate_base64(text) ==
    IF b64decode(text) = "raised" THEN "ValueError" ELSE "accepted"

\* The decoded bytes are empty unless the text holds two data characters.
HasData(text) == Cardinality({i \in 1..Len(text) : text[i] = "A"}) >= 2

\* The response FastAPI sends when the body fails validation; the handler is
\* not called.
ValidationError(message) ==
    [NoResponse EXCEPT !.status = 422, !.detail = <<message>>]

\* The requests posted at the boundary: a clip that does not decode, one that
\* is too short, one that is served.
ShortClip ==
    [decodable |-> TRUE, duration_ms |-> 499, channels |-> 1,
     frame_rate |-> target_sample_rate, fv |-> NoFeatures]

BoundaryClips ==
    {UndecodableBytes, ShortClip, [ShortClip EXCEPT !.duration_ms = min_duration]}

BoundaryRequests ==
    [audio_data : BoundaryClips, language : {NoLanguage, "hindi"},
     include_features : {FALSE}]

\* A client posts a body to /detect.
Post(text, req, flt) ==
    /\ pc = "idle"
    /\ HasData(text) \/ req.audio_data = UndecodableBytes
    /\ audio_text' = text
    /\ request' = req
    /\ fault' = flt
    /\ pc' = "posted"
    /\ UNCHANGED <<thresholds, language_models, features, language, ai_probability,
                   result, processed, calls, response, signal, extracted>>
    /\ UNCHANGED <<batchVars, sampleVars, workers>>

\* The body is parsed into a VoiceDetectionRequest, which runs validate_base64.
Validate ==
    /\ pc = "posted"
    /\ IF validate_base64(audio_text) = "ValueError"
       THEN /\ response' = ValidationError("Invalid base64 encoding")
            /\ pc' = "responded"
       ELSE /\ response' = response
            /\ pc' = "received"
    /\ UNCHANGED <<thresholds, language_models, features, language, ai_probability,
                   result, request, processed, calls, signal, extracted>>
    /\ UNCHANGED <<httpVars, batchVars, sampleVars, workers>>

----------------------------------------------------------------------------
(* The /detect/batch endpoint (main.py)                                    *)

\* BatchDetectionRequest.samples: Field(..., max_items=10)
max_items == 10

\* A sample of a batch: its audio_data string and the request it parses to.
WellFormedText == <<"A", "A", "A", "A">>

ServedClips ==
    [decodable : {TRUE}, duration_ms : {min_duration}, channels : {1},
     frame_rate : {target_sample_rate}, fv : ClipFeatureVectors]

BatchItems ==
    [audio_text : {WellFormedText},
     sample : [audio_data : ServedClips, language : {NoLanguage},
               include_features : {FALSE}]]
    \cup
    [audio_text : {WellFormedText, <<"!">>, <<"A">>},
     sample : [audio_data : {UndecodableBytes}, language : {NoLanguage},
               include_features : {FALSE}]]
    \cup
    [audio_text : {WellFormedText},
     sample : [audio_data : {ShortClip}, language : {"hindi"},
               include_features : {FALSE}]]

\* The batches posted: a seed of a few samples repeated to the batch's length.
MaxSeedLen == 2

BatchSeeds == UNION {[1..n -> BatchItems] : n \in 1..MaxSeedLen}

BatchLengths == 0..(max_items + 1)

Cycle(seed, n) == [i \in 1..n |-> seed[((i - 1) % Len(seed)) + 1]]

Batches == {Cycle(seed, n) : seed \in BatchSeeds, n \in BatchLengths}

\* str(e) of the HTTPException detect_voice raised: Starlette releases with
\* HTTPException.__str__ give "<status>: <detail>", earlier ones the empty
\* string, the exception being constructed with keyword arguments only.
StarletteBuilds == {"str is status and detail", "str is empty"}

StrOfHTTPException(e, build) ==
    IF build = "str is empty" THEN <<"">> ELSE <<e.status>> \o e.detail

\* result = await detect_voice(sample) for each sample, were the loop to
\* reach it.
ServedSamples(samples) ==
    [i \in 1..Len(samples) |-> detect_voice(samples[i].sample, NoFault).response]

\* The loop leaves at the first sample for which detect_voice raises.
FirstOf(failing) == CHOOSE i \in failing : \A j \in failing : i <= j

\* A variant of the loop with one slip: each result is put in front of the
\* results collected so far.
CollectResults_Prepends(served, failing) ==
    IF failing = {}
    THEN [raised |-> FALSE,
          results |-> [i \in 1..Len(served) |-> served[Len(served) + 1 - i]],
          called |-> [i \in 1..Len(served) |-> i], exception |-> NoResponse]
    ELSE [raised |-> TRUE, results |-> <<>>,
          called |-> [i \in 1..FirstOf(failing) |-> i],
          exception |-> served[FirstOf(failing)]]

\* A variant of the loop with one slip: a sample for which detect_voice
\* raises is skipped, and the results of the others are returned.
CollectResults_SkipsFailed(served, failing) ==
    [raised |-> FALSE,
     results |-> SelectSeq(served, LAMBDA r : r.status = 200),
     called |-> [i \in 1..Len(served) |-> i], exception |-> NoResponse]

\* for idx, sample in enumerate(request.samples): result = await
\* detect_voice(sample); results.append(result) -- the loop as a whole, given
\* what detect_voice answers for each sample and the set of samples for which
\* it raises: the samples are served in order up to the first one for which
\* detect_voice raises its HTTPException, which leaves the loop; without
\* one, every sample's result has been appended in order.
CollectResults(served, failing) ==
    IF failing = {}
    THEN [raised |-> FALSE, results |-> served,
          called |-> [i \in 1..Len(served) |-> i], exception |-> NoResponse]
    ELSE [raised |-> TRUE, results |-> <<>>,
          called |-> [i \in 1..FirstOf(failing) |-> i],
          exception |-> served[FirstOf(failing)]]

Failing(served) == {i \in 1..Len(served) : served[i].status # 200}

RunLoop(served) == CollectResults(served, Failing(served))

RunBatch(samples) == RunLoop(ServedSamples(samples))

\* return {...} after the loop, or except Exception as e: raise
\* HTTPException(500, f"Error processing batch: {str(e)}")
BatchOutcome(run, build) ==
    IF run.raised
    THEN [called |-> run.called,
          response |-> [NoBatchResponse EXCEPT
                          !.status = 500,
                          !.detail = <<"Error processing batch: ">>
                                     \o StrOfHTTPException(run.exception, build)]]
    ELSE [called |-> run.called,
          response |-> [NoBatchResponse EXCEPT
                          !.status = 200,
                          !.results = run.results,
                          !.total_samples = Len(run.results)]]

\* detect_batch, the whole handler: the response and the samples it handed
\* to detect_voice.
detect_batch(samples, build) == BatchOutcome(RunBatch(samples), build)

\* The body is parsed into a BatchDetectionRequest: every sample is validated
\* as a VoiceDetectionRequest, and the list may hold at most max_items.
validate_batch(samples) ==
    IF Len(samples) > max_items
    THEN "ValueError"
    ELSE IF \E i \in 1..Len(samples) : validate_base64(samples[i].audio_text) = "ValueError"
    THEN "ValueError"
    ELSE "accepted"

\* A client posts a body to /detect/batch.
PostBatch(samples) ==
    /\ pc = "idle"
    /\ batch' = samples
    /\ pc' = "batch posted"
    /\ UNCHANGED <<thresholds, language_models, features, language, ai_probability,
                   result, request, processed, calls, response, signal, extracted>>
    /\ UNCHANGED <<httpVars, batch_calls, batch_response, sampleVars, workers>>

ValidateBatch ==
    /\ pc = "batch posted"
    /\ IF validate_batch(batch) = "ValueError"
       THEN /\ batch_response' = [NoBatchResponse EXCEPT
                                    !.status = 422, !.detail = <<"validation error">>]
            /\ pc' = "responded"
       ELSE /\ batch_response' = batch_response
            /\ pc' = "batch received"
    /\ UNCHANGED <<thresholds, language_models, features, language, ai_probability,
                   result, request, processed, calls, response, signal, extracted>>
    /\ UNCHANGED <<httpVars, batch, batch_calls, sampleVars, workers>>

\* detect_batch, the whole handler.
DetectBatch(build) ==
    /\ pc = "batch received"
    /\ LET served == detect_batch(batch, build)
       IN  /\ batch_calls' = served.called
           /\ batch_response' = served.response
    /\ pc' = "responded"
    /\ UNCHANGED <<thresholds, language_models, features, language, ai_probability,
                   result, request, processed, calls, response, signal, extracted>>
    /\ UNCHANGED <<httpVars, batch, sampleVars, workers>>

NextBoundary ==
    \/ \E text \in Base64Texts, req \in BoundaryRequests, flt \in Faults :
           Post(text, req, flt)
    \/ Validate
    \/ DetectVoice
    \/ \E samples \in Batches : PostBatch(samples)
    \/ ValidateBatch
    \/ \E build \in StarletteBuilds : DetectBatch(build)
    \/ Reply

SpecBoundary == Init /\ [][NextBoundary]_vars

----------------------------------------------------------------------------
(* The scorer on handcrafted feature vectors: a caller holds a feature     *)
(* vector and calls detect's scoring path once with a language code.       *)

InitScorer ==
    /\ thresholds = DefaultThresholds
    /\ language_models = DefaultLanguageModels
    /\ features \in FeatureVectors
    /\ language = ""
    /\ ai_probability = Half
    /\ result = NoResult
    /\ request = NoRequest
    /\ processed = NotProcessed
    /\ calls = <<>>
    /\ response = NoResponse
    /\ signal = NoSignal
    /\ extracted = NotExtracted
    /\ audio_text = NoText
    /\ fault = NoFault
    /\ batch = NoBatch
    /\ batch_calls = <<>>
    /\ batch_response = NoBatchResponse
    /\ emphasized = NotEmphasized
    /\ zero_crossing_rate = NoRate
    /\ workers = NoWorkers
    /\ pc = "ready"

Detect(lang, include_features) ==
    /\ pc = "ready"
    /\ language' = lang
    /\ ai_probability' = _calculate_ai_probability(features, lang)
    /\ result' = DetectResult(features, lang, include_features)
    /\ pc' = "scored"
    /\ UNCHANGED <<thresholds, language_models, features>>
    /\ UNCHANGED <<request, processed, calls, response, signal, extracted>>
    /\ UNCHANGED <<httpVars, batchVars, sampleVars, workers>>

NextScorer == \E lang \in LanguageCodes, include_features \in BOOLEAN :
                  Detect(lang, include_features)

SpecScorer == InitScorer /\ [][NextScorer]_vars

----------------------------------------------------------------------------
(* VoiceDetector._extract_features: which values are finite                *)
(*                                                                         *)
(* The model does not compute spectra or autocorrelations.  It follows     *)
(* each helper's guards and fallbacks and tells, for a given signal,       *)
(* whether the helper returns a fallback constant, a finite number it      *)
(* computed ("computed" also where a finite fallback may be taken that     *)
(* the model cannot tell) or NaN, and whether a call raises.  A signal is  *)
(* a short pattern of samples repeated a number of times, so that silent,  *)
(* constant and periodic clips of a valid length (8000 samples are 0.5 s   *)
(* at 16 kHz) are covered as well as clips of a few samples.  What decides *)
(* the outcome is the length of the signal and whether all its samples     *)
(* are equal.                                                              *)
(*                                                                         *)
(* numpy/scipy facts used: fft and correlate of an empty array raise       *)
(* ValueError; mean and var of an empty array are NaN; sum of an empty     *)
(* array is 0; kurtosis and skew divide central moments and, for a signal  *)
(* whose samples are all equal (second moment 0), return NaN in scipy      *)
(* >= 1.9 and a finite constant in older builds.                           *)

MaxPatternLen == 3

Samples == {-1, 0, 1}

Patterns == UNION {[1..n -> Samples] : n \in 0..MaxPatternLen}

\* 341, 512, 1025 and 1537 copies give the lengths 1023, 1024, 1025, 1536 and
\* 1537 around one and two frames of 1024 samples at hop 512.
Repeats == {1, 341, 512, 1025, 1537, 8000}

Signals == [pattern : Patterns, repeats : Repeats]

\* len(audio_data)
SignalLen(sig) == Len(sig.pattern) * sig.repeats

\* All samples equal: a silent clip, or a constant one (every clip of one
\* sample is).
IsConstant(sig) == \A i, j \in 1..Len(sig.pattern) : sig.pattern[i] = sig.pattern[j]

IsSilent(sig) == \A i \in 1..Len(sig.pattern) : sig.pattern[i] = 0

\* What the installed scipy returns for the kurtosis and skewness of a
\* constant signal.
ScipyBuilds == {"nan for constant input", "number for constant input"}

\* The value a helper returns: a fallback constant (in units of 1/10000), a
\* finite number it computed, or NaN.
Fallback(v) == [kind |-> "fallback", value |-> v]
Computed == [kind |-> "computed", value |-> 0]
NaN == [kind |-> "nan", value |-> 0]

IsFinite(v) == v.kind # "nan"

\* spectrum = np.abs(fft(audio_data)); spectrum[:len(spectrum)//2]
SpectrumBins(sig) == SignalLen(sig) \div 2

\* np.mean / np.var over `count` finite numbers
MeanOver(count) == IF count = 0 THEN NaN ELSE Computed

\* len(list(range(0, len(audio_data) - frame_length, hop_length)))
FrameCount(sig) ==
    LET stop == SignalLen(sig) - 1024
    IN  IF stop <= 0 THEN 0 ELSE (stop + 511) \div 512

\* geometric mean / (arithmetic mean + 1e-10), both means over the half spectrum
_calculate_spectral_flatness(sig) == MeanOver(SpectrumBins(sig))

\* np.sum(freqs * spectrum) / (np.sum(spectrum) + 1e-10): sums, 0 when empty
_calculate_spectral_centroid(sig) == Computed

\* the first index where the cumulative sum reaches 85 %, or 0.0 when there is none
_calculate_spectral_rolloff(sig) ==
    IF SpectrumBins(sig) > 0 THEN Computed ELSE Fallback(0)

\* 0.5 when the autocorrelation has fewer than 2 lags; 0.3 without a peak, as
\* for a silent signal, whose autocorrelation is flat; else the mean peak over
\* (max + 1e-10), the max being the signal's energy
_calculate_harmonic_ratio(sig) ==
    IF SignalLen(sig) < 2 THEN Fallback(5000)
    ELSE IF IsSilent(sig) THEN Fallback(3000)
    ELSE Computed

\* sign changes / len(audio_data)
_calculate_zero_crossing_rate(sig) == IF SignalLen(sig) = 0 THEN NaN ELSE Computed

\* np.std of the per-frame rates, or 0.0 without a frame
_calculate_zcr_std(sig) == IF FrameCount(sig) > 0 THEN Computed ELSE Fallback(0)

\* std(periods) / (mean(periods) + 1e-10) with more than one peak, else 0.01;
\* a signal of fewer than 4 samples or a silent one has no two peaks
_calculate_jitter(sig) ==
    IF SignalLen(sig) < 4 \/ IsSilent(sig) THEN Fallback(100) ELSE Computed

\* std(amplitudes) / (mean(amplitudes) + 1e-10) with more than one frame, else 0.05
_calculate_shimmer(sig) == IF FrameCount(sig) > 1 THEN Computed ELSE Fallback(500)

\* np.var(np.log(spectrum + 1e-10)) over the half spectrum
_calculate_mfcc_variance(sig) == MeanOver(SpectrumBins(sig))

\* entropy of the normalised frame energies (+ 1e-10), or 0.0 without a frame
_calculate_energy_entropy(sig) == IF FrameCount(sig) > 0 THEN Computed ELSE Fallback(0)

\* 20 * log10(max / (rms + 1e-10)) when rms > 0, else 0.0
_calculate_dynamic_range(sig) == IF IsSilent(sig) THEN Fallback(0) ELSE Computed

\* scipy.stats.kurtosis(audio_data), scipy.stats.skew(audio_data): m4 / m2**2
\* and m3 / m2**1.5, with m2 = 0 for a constant signal
StandardisedMoment(sig, build) ==
    IF IsConstant(sig) /\ build = "nan for constant input" THEN NaN ELSE Computed

FeatureKeys ==
    {"spectral_flatness", "spectral_centroid", "spectral_rolloff", "harmonic_ratio",
     "zero_crossing_rate", "zcr_std", "jitter", "shimmer", "mfcc_variance",
     "energy_entropy", "dynamic_range", "signal_kurtosis", "signal_skewness"}

\* The first helper called is _calculate_spectral_flatness, whose fft raises on
\* an empty signal; nothing in _extract_features catches it.
_extract_features(sig, build) ==
    IF SignalLen(sig) = 0
    THEN [state |-> "raised", features |-> <<>>]
    ELSE [state |-> "returned",
          features |->
            [ spectral_flatness  |-> _calculate_spectral_flatness(sig),
              spectral_centroid  |-> _calculate_spectral_centroid(sig),
              spectral_rolloff   |-> _calculate_spectral_rolloff(sig),
              harmonic_ratio     |-> _calculate_harmonic_ratio(sig),
              zero_crossing_rate |-> _calculate_zero_crossing_rate(sig),
              zcr_std            |-> _calculate_zcr_std(sig),
              jitter             |-> _calculate_jitter(sig),
              shimmer            |-> _calculate_shimmer(sig),
              mfcc_variance      |-> _calculate_mfcc_variance(sig),
              energy_entropy     |-> _calculate_energy_entropy(sig),
              dynamic_range      |-> _calculate_dynamic_range(sig),
              signal_kurtosis    |-> StandardisedMoment(sig, build),
              signal_skewness    |-> StandardisedMoment(sig, build) ]]

InitExtract ==
    /\ thresholds = DefaultThresholds
    /\ language_models = DefaultLanguageModels
    /\ features = NoFeatures
    /\ language = ""
    /\ ai_probability = Half
    /\ result = NoResult
    /\ request = NoRequest
    /\ processed = NotProcessed
    /\ calls = <<>>
    /\ response = NoResponse
    /\ signal \in Signals
    /\ extracted = NotExtracted
    /\ audio_text = NoText
    /\ fault = NoFault
    /\ batch = NoBatch
    /\ batch_calls = <<>>
    /\ batch_response = NoBatchResponse
    /\ emphasized = NotEmphasized
    /\ zero_crossing_rate = NoRate
    /\ workers = NoWorkers
    /\ pc = "ready"

ExtractFeatures(build) ==
    /\ pc = "ready"
    /\ extracted' = _extract_features(signal, build)
    /\ pc' = "extracted"
    /\ UNCHANGED <<thresholds, language_models, features, language, ai_probability,
                   result, request, processed, calls, response, signal>>
    /\ UNCHANGED <<httpVars, batchVars, sampleVars, workers>>

NextExtract == \E build \in ScipyBuilds : ExtractFeatures(build)

SpecExtract == InitExtract /\ [][NextExtract]_vars

----------------------------------------------------------------------------
(* The sample-level helpers on concrete samples: _apply_preemphasis        *)
(* (audio_processor.py) and _calculate_zero_crossing_rate                  *)
(* (voice_detector.py).  A sample is an integer; the pre-emphasised        *)
(* samples are in units of 1/100 of a sample, coef being 97/100.           *)

coef == 97

\* The samples of a signal that is one copy of its pattern.
SamplesOf(sig) == sig.pattern

\* A variant with one slip: the first sample is filtered like the others,
\* against a zero sample before it, and the coefficient is applied to it.
_apply_preemphasis_ScalesFirst(audio_data) ==
    IF Len(audio_data) = 0
    THEN [state |-> "raised", samples |-> <<>>]
    ELSE [state |-> "returned",
          samples |-> [i \in 1..Len(audio_data) |->
                         IF i = 1
                         THEN (100 - coef) * audio_data[1]
                         ELSE 100 * audio_data[i] - coef * audio_data[i - 1]]]

\* np.append(audio_data[0], audio_data[1:] - coef * audio_data[:-1]);
\* audio_data[0] of an empty array raises IndexError.
_apply_preemphasis(audio_data) ==
    IF Len(audio_data) = 0
    THEN [state |-> "raised", samples |-> <<>>]
    ELSE [state |-> "returned",
          samples |-> [i \in 1..Len(audio_data) |->
                         IF i = 1
                         THEN 100 * audio_data[1]
                         ELSE 100 * audio_data[i] - coef * audio_data[i - 1]]]

\* np.sign and np.abs
Sign(v) == IF v > 0 THEN 1 ELSE IF v < 0 THEN -1 ELSE 0

Abs(v) == IF v < 0 THEN -v ELSE v

\* np.sum(np.abs(np.diff(np.sign(audio_data))))
RECURSIVE SignDiffSum(_, _)
SignDiffSum(audio_data, n) ==
    IF n <= 1
    THEN 0
    ELSE SignDiffSum(audio_data, n - 1)
         + Abs(Sign(audio_data[n]) - Sign(audio_data[n - 1]))

\* zero_crossings = np.sum(...) / 2; zcr = zero_crossings / len(audio_data),
\* which is nan for an empty array.
zcr(audio_data) ==
    IF Len(audio_data) = 0
    THEN [state |-> "nan", value |-> Frac(0, 1)]
    ELSE [state |-> "returned",
          value |-> Frac(SignDiffSum(audio_data, Len(audio_data)),
                         2 * Len(audio_data))]

InitSamples ==
    /\ thresholds = DefaultThresholds
    /\ language_models = DefaultLanguageModels
    /\ features = NoFeatures
    /\ language = ""
    /\ ai_probability = Half
    /\ result = NoResult
    /\ request = NoRequest
    /\ processed = NotProcessed
    /\ calls = <<>>
    /\ response = NoResponse
    /\ signal \in [pattern : Patterns, repeats : {1}]
    /\ extracted = NotExtracted
    /\ audio_text = NoText
    /\ fault = NoFault
    /\ batch = NoBatch
    /\ batch_calls = <<>>
    /\ batch_response = NoBatchResponse
    /\ emphasized = NotEmphasized
    /\ zero_crossing_rate = NoRate
    /\ workers = NoWorkers
    /\ pc = "ready"

ApplyPreemphasis ==
    /\ pc = "ready"
    /\ emphasized' = _apply_preemphasis(SamplesOf(signal))
    /\ pc' = "emphasized"
    /\ UNCHANGED <<thresholds, language_models, features, language, ai_probability,
                   result, request, processed, calls, response, signal, extracted>>
    /\ UNCHANGED <<httpVars, batchVars, zero_crossing_rate, workers>>

CalculateZeroCrossingRate ==
    /\ pc = "ready"
    /\ zero_crossing_rate' = zcr(SamplesOf(signal))
    /\ pc' = "counted"
    /\ UNCHANGED <<thresholds, language_models, features, language, ai_probability,
                   result, request, processed, calls, response, signal, extracted>>
    /\ UNCHANGED <<httpVars, batchVars, emphasized, workers>>

NextSamples ==
    \/ ApplyPreemphasis
    \/ CalculateZeroCrossingRate

SpecSamples == InitSamples /\ [][NextSamples]_vars

----------------------------------------------------------------------------
(* Requests in flight together.  main.py builds one VoiceDetector and one  *)
(* AudioProcessor at import; every request is served on these two objects. *)
(* A request here advances call by call, so that the calls of different    *)
(* requests interleave in every order.                                     *)

NumWorkers == 2

Workers == 1..NumWorkers

IdleWorker ==
    [pc |-> "idle", request |-> NoRequest, processed |-> NotProcessed,
     language |-> "", response |-> NoResponse]

ConcurrentRequests ==
    [audio_data : {UndecodableBytes} \cup ServedClips,
     language : {NoLanguage, "tamil"},
     include_features : {FALSE}]

\* A variant with one slip: detect keeps the language's weight for later
\* calls by scaling the shared zcr_std threshold with it.
DetectorAfter_CachesWeight(call, self) ==
    IF call = "detect"
    THEN [self EXCEPT !.thresholds.zero_crossing_rate_std = 0]
    ELSE self

\* The attributes of the shared detector after one of its methods ran:
\* neither detect (with the helpers it calls) nor detect_language assigns
\* to self.
DetectorAfter(call, self) == self

SharedDetector == [thresholds |-> thresholds, language_models |-> language_models]

InitConcurrent ==
    /\ thresholds = DefaultThresholds
    /\ language_models = DefaultLanguageModels
    /\ features = NoFeatures
    /\ language = ""
    /\ ai_probability = Half
    /\ result = NoResult
    /\ request = NoRequest
    /\ processed = NotProcessed
    /\ calls = <<>>
    /\ response = NoResponse
    /\ signal = NoSignal
    /\ extracted = NotExtracted
    /\ audio_text = NoText
    /\ fault = NoFault
    /\ batch = NoBatch
    /\ batch_calls = <<>>
    /\ batch_response = NoBatchResponse
    /\ emphasized = NotEmphasized
    /\ zero_crossing_rate = NoRate
    /\ workers = [w \in Workers |-> IdleWorker]
    /\ pc = "serving"

\* detect_voice is entered for a request.
Accept(w, req) ==
    /\ workers[w].pc = "idle"
    /\ workers' = [workers EXCEPT ![w] = [IdleWorker EXCEPT !.pc = "accepted",
                                                           !.request = req]]
    /\ UNCHANGED <<thresholds, language_models, features, language, ai_probability,
                   result, request, processed, calls, response, signal, extracted>>
    /\ UNCHANGED <<httpVars, batchVars, sampleVars, pc>>

\* audio_processor.process_audio(audio_bytes); a ValueError ends the request.
CallProcessAudio(w) ==
    /\ workers[w].pc = "accepted"
    /\ LET outcome == process_audio(workers[w].request.audio_data, NoFault)
       IN  workers' = [workers EXCEPT
                         ![w].processed = outcome,
                         ![w].pc = IF outcome.state = "raised"
                                   THEN "done" ELSE "processed",
                         ![w].language = workers[w].request.language,
                         ![w].response = IF outcome.state = "raised"
                                         THEN ErrorResponse(outcome.error, outcome.message)
                                         ELSE NoResponse]
    /\ UNCHANGED <<thresholds, language_models, features, language, ai_probability,
                   result, request, processed, calls, response, signal, extracted>>
    /\ UNCHANGED <<httpVars, batchVars, sampleVars, pc>>

\* if language is None: language = detector.detect_language(...)
CallDetectLanguage(w) ==
    /\ workers[w].pc = "processed"
    /\ workers[w].language = NoLanguage
    /\ workers' = [workers EXCEPT
                     ![w].language = detect_language(workers[w].processed.fv,
                                                     workers[w].processed.sample_rate)]
    /\ LET after == DetectorAfter("detect_language", SharedDetector)
       IN  /\ thresholds' = after.thresholds
           /\ language_models' = after.language_models
    /\ UNCHANGED <<features, language, ai_probability,
                   result, request, processed, calls, response, signal, extracted>>
    /\ UNCHANGED <<httpVars, batchVars, sampleVars, pc>>

\* detector.detect(...) and the response built from its result.
CallDetect(w) ==
    /\ workers[w].pc = "processed"
    /\ workers[w].language # NoLanguage
    /\ LET me  == workers[w]
           res == DetectResult(me.processed.fv, me.language, me.request.include_features)
       IN  workers' = [workers EXCEPT
                         ![w].pc = "done",
                         ![w].response = OkResponse(me.request, res, me.language,
                                                    me.processed.duration_ms)]
    /\ LET after == DetectorAfter("detect", SharedDetector)
       IN  /\ thresholds' = after.thresholds
           /\ language_models' = after.language_models
    /\ UNCHANGED <<features, language, ai_probability,
                   result, request, processed, calls, response, signal, extracted>>
    /\ UNCHANGED <<httpVars, batchVars, sampleVars, pc>>

\* The response is sent.
Release(w) ==
    /\ workers[w].pc = "done"
    /\ workers' = [workers EXCEPT ![w] = IdleWorker]
    /\ UNCHANGED <<thresholds, language_models, features, language, ai_probability,
                   result, request, processed, calls, response, signal, extracted>>
    /\ UNCHANGED <<httpVars, batchVars, sampleVars, pc>>

NextConcurrent ==
    \E w \in Workers :
        \/ \E req \in ConcurrentRequests : Accept(w, req)
        \/ CallProcessAudio(w)
        \/ CallDetectLanguage(w)
        \/ CallDetect(w)
        \/ Release(w)

SpecConcurrent == InitConcurrent /\ [][NextConcurrent]_vars

----------------------------------------------------------------------------
(* The rule table as the specification documents it, used to state the     *)
(* properties of the scorer independently of the code's accumulation.      *)

TableMultiplier(lang) ==
    CASE lang = "tamil"     -> 110
      [] lang = "english"   -> 100
      [] lang = "hindi"     -> 105
      [] lang = "malayalam" -> 110
      [] lang = "telugu"    -> 108
      [] OTHER              -> 100

RuleTable(lang) ==
    { [feature |-> "spectral_flatness", above |-> TRUE,  threshold |-> 1500,  weight |-> 2000],
      [feature |-> "harmonic_ratio",    above |-> TRUE,  threshold |-> 7500,  weight |-> 1500],
      [feature |-> "zcr_std",           above |-> FALSE, threshold |-> 200,
                                        weight |-> 18 * TableMultiplier(lang)],
      [feature |-> "jitter",            above |-> FALSE, threshold |-> 50,    weight |-> 2200],
      [feature |-> "shimmer",           above |-> FALSE, threshold |-> 500,   weight |-> 2000],
      [feature |-> "mfcc_variance",     above |-> FALSE, threshold |-> 25000, weight |-> 1500],
      [feature |-> "energy_entropy",    above |-> FALSE, threshold |-> 35000, weight |-> 1000] }

Satisfies(f, rule) ==
    IF rule.above THEN f[rule.feature] > rule.threshold
                  ELSE f[rule.feature] < rule.threshold

SatisfiedRules(f, lang) == {rule \in RuleTable(lang) : Satisfies(f, rule)}

RECURSIVE WeightSum(_)
WeightSum(rules) ==
    IF rules = {} THEN 0
    ELSE LET rule == CHOOSE r \in rules : TRUE
         IN  rule.weight + WeightSum(rules \ {rule})

Scored == pc = "scored"

\* C1: the probability is (sum of the weights of the satisfied rules) / (sum of
\* all seven rule weights) of the documented table, with strict comparisons and
\* the language's multiplier (1.0 for an unknown code) on the zcr_std rule; the
\* total weight is positive, so the 0.5 guard is never taken.
C1_ProbabilityIsWeightedShare ==
    Scored =>
        /\ ScoreAccumulators(features, language).total_weight > 0
        /\ ai_probability.den = WeightSum(RuleTable(language))
        /\ ai_probability.num = WeightSum(SatisfiedRules(features, language))

C1_Witness ==
    /\ Scored
    /\ language = "telugu"
    /\ features.zcr_std < 200
    /\ features.spectral_flatness = 1500
    /\ features.jitter = 50
    /\ ai_probability.num = 1944 + WeightSum({r \in SatisfiedRules(features, language) :
                                                 r.feature # "zcr_std"})

\* C2: the probability lies in [0, 1] for every feature vector and every
\* language code, known or unknown.
C2_ProbabilityInUnitInterval ==
    Scored =>
        /\ ai_probability.den > 0
        /\ 0 <= ai_probability.num
        /\ ai_probability.num <= ai_probability.den

C2_Witness ==
    /\ Scored
    /\ language = "french"
    /\ ai_probability.num = ai_probability.den

\* C3: a feature vector satisfying all seven AI-leaning comparisons gets
\* probability 1.0 and ai_generated; one satisfying none gets a probability
\* strictly below 0.5 and human_generated; for every language code.
C3_AllOrNoneOfTheRules ==
    Scored =>
        /\ SatisfiedRules(features, language) = RuleTable(language)
              => /\ FracEq(ai_probability, Frac(1, 1))
                 /\ result.classification = "ai_generated"
        /\ SatisfiedRules(features, language) = {}
              => /\ FracGT(Half, ai_probability)
                 /\ result.classification = "human_generated"

C3_Witness ==
    /\ Scored
    /\ language = "malayalam"
    /\ SatisfiedRules(features, language) = RuleTable(language)
    /\ result.classification = "ai_generated"

\* C4: classification is ai_generated exactly when the probability is strictly
\* greater than 0.5 (exactly 0.5 is human_generated), and the class word and
\* the closing sentence of the explanation name the same class.
C4_ClassificationAndExplanationAgree ==
    Scored =>
        /\ result.classification = "ai_generated"
              <=> 2 * ai_probability.num > ai_probability.den
        /\ result.classification = "human_generated"
              <=> 2 * ai_probability.num <= ai_probability.den
        /\ result.explanation.classification = "AI-generated"
              <=> result.classification = "ai_generated"
        /\ result.explanation.classification = "human-generated"
              <=> result.classification = "human_generated"
        /\ result.explanation.closing
              = "These patterns are typical of synthetic voice generation systems."
              <=> result.classification = "ai_generated"
        /\ result.explanation.closing
              = "These characteristics are consistent with natural human speech production."
              <=> result.classification = "human_generated"

C4_Witness ==
    /\ Scored
    /\ 2 * ai_probability.num = ai_probability.den
    /\ result.classification = "human_generated"
    /\ result.explanation.classification = "human-generated"

FracMax(a, b) == IF FracGT(a, b) THEN a ELSE b

\* C5: the confidence detect returns is max(probability, 1 - probability),
\* rounded to 4 decimals, and lies in [0.5, 1.0], the tie 0.5 included.
C5_ConfidenceIsMax ==
    Scored =>
        /\ result.confidence_score
              = RoundTo(FracMax(ai_probability, OneMinus(ai_probability)), 10000)
        /\ 5000 <= result.confidence_score
        /\ result.confidence_score <= 10000

C5_Witness ==
    /\ Scored
    /\ result.classification = "human_generated"
    /\ result.confidence_score = 5000

----------------------------------------------------------------------------
(* The language code and the score                                          *)

ZcrRuleSatisfied(f) == f.zcr_std < 200

\* C6 as stated: the language influences the score only through the zcr_std
\* rule: for a second scorer call on the same feature vector with another
\* language code, the probability is identical whenever zcr_std < 0.02 is not
\* satisfied.
C6_LanguageOnlyThroughSatisfiedZcrRule ==
    Scored =>
        \A other \in LanguageCodes :
            ~ZcrRuleSatisfied(features)
                => FracEq(ai_probability, _calculate_ai_probability(features, other))

\* C6 as amended: the language enters the score only through the weight of
\* the zcr_std rule, which total_weight includes whether or not the rule is
\* satisfied.  For a second scorer call on the same feature vector with
\* another language code: the six other rules add the same weights to
\* ai_score and to total_weight; when zcr_std < 0.02 is not satisfied ai_score
\* is identical, and the probability is identical exactly when the two
\* multipliers are equal or no rule is satisfied.
C6_LanguageOnlyThroughZcrWeight ==
    Scored =>
        \A other \in LanguageCodes :
            LET mine   == ScoreAccumulators(features, language)
                theirs == ScoreAccumulators(features, other)
                m1     == 18 * TableMultiplier(language)
                m2     == 18 * TableMultiplier(other)
                z      == ZcrRuleSatisfied(features)
            IN  /\ ai_probability = Frac(mine.ai_score, mine.total_weight)
                /\ mine.total_weight - m1 = theirs.total_weight - m2
                /\ mine.ai_score - (IF z THEN m1 ELSE 0)
                      = theirs.ai_score - (IF z THEN m2 ELSE 0)
                /\ ~z => /\ mine.ai_score = theirs.ai_score
                         /\ FracEq(ai_probability, _calculate_ai_probability(features, other))
                               <=> (m1 = m2 \/ mine.ai_score = 0)

\* The same feature vector, zcr_std rule not satisfied, scores 2.0/12.18 for
\* tamil and 2.0/12.0 for english.
C6_Witness ==
    /\ Scored
    /\ language = "tamil"
    /\ ~ZcrRuleSatisfied(features)
    /\ ai_probability = Frac(2000, 12180)
    /\ _calculate_ai_probability(features, "english") = Frac(2000, 12000)

----------------------------------------------------------------------------
(* The explanation and the indicator lists against the rule table          *)

Range(seq) == {seq[i] : i \in 1..Len(seq)}

FallbackPhrases == <<"natural prosodic variation", "organic spectral characteristics">>

\* The feature whose AI-leaning comparison a reason phrase stands for.
PhraseFeature(phrase) ==
    CASE phrase = "uniform spectral distribution" -> "spectral_flatness"
      [] phrase = "minimal pitch variation"       -> "jitter"
      [] phrase = "consistent amplitude"          -> "shimmer"
      [] phrase = "stable zero-crossing rate"     -> "zcr_std"
      [] phrase = "high harmonic content"         -> "harmonic_ratio"
      [] OTHER                                    -> "none"

\* The feature whose AI-leaning comparison an ai_indicators label stands for.
LabelFeature(label) ==
    CASE label = "High spectral uniformity"       -> "spectral_flatness"
      [] label = "Low pitch jitter"               -> "jitter"
      [] label = "Low amplitude shimmer"          -> "shimmer"
      [] label = "Consistent zero-crossing rate"  -> "zcr_std"
      [] label = "Strong harmonic structure"      -> "harmonic_ratio"
      [] OTHER                                    -> "none"

SatisfiedFeatures(f) == {rule.feature : rule \in SatisfiedRules(f, "english")}

\* The five comparisons _generate_explanation and _get_ai_indicators look at.
ExplainedFeatures ==
    {"spectral_flatness", "jitter", "shimmer", "zcr_std", "harmonic_ratio"}

ReasonsAreSatisfiedRules ==
    /\ Len(result.explanation.reasons) <= 3
    /\ result.explanation.reasons # FallbackPhrases
          => \A phrase \in Range(result.explanation.reasons) :
                 PhraseFeature(phrase) \in SatisfiedFeatures(features)

----------------------------------------------------------------------------
(* The duration gate of process_audio in the request flow                  *)

Responded == pc = "responded"

\* C7: process_audio succeeds only for clips whose decoded duration d has
\* 0.5 <= d <= 300 s, both bounds accepted, and then returns sample_rate
\* 16000 and that duration; for d < 0.5 or d > 300 it fails with a duration
\* error, and the request flow performs no language detection, feature
\* extraction or scoring for that clip.
C7_DurationGate ==
    Responded =>
        LET clip    == request.audio_data
            d       == clip.duration_ms
            inRange == 500 <= d /\ d <= 300000
        IN  /\ processed.state = "returned"
                  => /\ clip.decodable /\ inRange
                     /\ processed.sample_rate = 16000
                     /\ processed.frame_rate = 16000
                     /\ processed.duration_ms = d
                     /\ response.status = 200
            /\ (clip.decodable /\ inRange) => processed.state = "returned"
            /\ (clip.decodable /\ ~inRange)
                  => /\ processed.state = "raised"
                     /\ processed.error = "ValueError"
                     /\ processed.message[2] = (IF d < 500 THEN "Audio too short"
                                                           ELSE "Audio too long")
                     /\ response.status = 400
                     /\ calls = <<"process_audio">>
                     /\ result = NoResult
                     /\ response.classification = ""

\* A 44.1 kHz clip of exactly 0.5 s is accepted and comes back at 16 kHz.
C7_Witness ==
    /\ Responded
    /\ request.audio_data.decodable
    /\ request.audio_data.duration_ms = 500
    /\ request.audio_data.frame_rate = 44100
    /\ processed.state = "returned"
    /\ processed.sample_rate = 16000
    /\ "_extract_features" \in Range(calls)

----------------------------------------------------------------------------
(* Totality of the feature extractor                                       *)

\* C10: _extract_features is total: for any well-formed (non-empty) clip,
\* silent, periodic or of degenerate length, it never raises and returns
\* exactly the 13 feature keys, each with a finite value.  (Violated: a
\* one-sample clip has an empty half spectrum, whose mean and variance are
\* NaN; a silent or constant clip of any length has NaN kurtosis and skewness
\* where scipy returns NaN for constant input.)
C10_ExtractFeaturesTotal ==
    (pc = "extracted" /\ SignalLen(signal) >= 1) =>
        /\ extracted.state = "returned"
        /\ DOMAIN extracted.features = FeatureKeys
        /\ \A k \in FeatureKeys : IsFinite(extracted.features[k])

----------------------------------------------------------------------------
(* The batch endpoint                                                      *)

BatchResponded == pc = "responded" /\ batch_response.status # 0

\* A sample that passes validation and that detect_voice serves.
ValidSample(item) ==
    /\ validate_base64(item.audio_text) = "accepted"
    /\ detect_voice(item.sample, NoFault).response.status = 200

\* C11: a batch of n <= 10 valid samples is answered with exactly n results,
\* result i being the detection result of sample i, the samples having been
\* handed to detect_voice in the order of the request; a batch of more than
\* 10 samples is rejected without any sample having been handed to
\* detect_voice and without results.
C11_BatchResultsInRequestOrder ==
    BatchResponded =>
        /\ Len(batch) > 10 =>
               /\ batch_response.status \in 400..499
               /\ batch_response.results = <<>>
               /\ batch_calls = <<>>
        /\ (Len(batch) <= 10 /\ \A i \in 1..Len(batch) : ValidSample(batch[i])) =>
               /\ batch_response.status = 200
               /\ Len(batch_response.results) = Len(batch)
               /\ batch_response.total_samples = Len(batch)
               /\ batch_calls = [i \in 1..Len(batch) |-> i]
               /\ \A i \in 1..Len(batch) :
                      batch_response.results[i]
                          = detect_voice(batch[i].sample, NoFault).response

\* A batch of ten valid samples was answered, and its first two results
\* differ.
C11_Witness ==
    /\ BatchResponded
    /\ Len(batch) = 10
    /\ \A i \in 1..Len(batch) : ValidSample(batch[i])
    /\ batch_response.status = 200
    /\ batch_response.results[1] # batch_response.results[2]

----------------------------------------------------------------------------
(* Failures at the boundary                                                *)

\* The message process_audio's body raised before the except clause wrapped
\* it: the second part of the wrapped message.
OriginalMessage(outcome) == outcome.message[2]

\* A decode failure or a duration failure of process_audio.
DecodeOrDurationFailure(outcome) ==
    /\ outcome.state = "raised"
    /\ OriginalMessage(outcome) \in {"could not decode", "Audio too short", "Audio too long"}

\* C12: a decode failure or duration failure of process_audio is answered
\* with a 4xx status and a detail that carries the original message, on
\* /detect and for a sample of a batch posted to /detect/batch alike.
C12_DecodeAndDurationFailuresAre4xx ==
    /\ (Responded /\ response.status # 0 /\ DecodeOrDurationFailure(processed)) =>
           /\ response.status \in 400..499
           /\ OriginalMessage(processed) \in Range(response.detail)
    /\ BatchResponded =>
           \A i \in Range(batch_calls) :
               LET outcome == process_audio(batch[i].sample.audio_data, NoFault)
               IN  DecodeOrDurationFailure(outcome) =>
                       /\ batch_response.status \in 400..499
                       /\ OriginalMessage(outcome) \in Range(batch_response.detail)

\* The part of C12 about /detect alone, which the handler satisfies.
C12_SingleEndpoint ==
    (Responded /\ response.status # 0 /\ DecodeOrDurationFailure(processed)) =>
        /\ response.status = 400
        /\ OriginalMessage(processed) \in Range(response.detail)

\* The request ran into its internal failure: the failing step was invoked,
\* and for a failure inside process_audio the decode and the duration checks
\* had passed.
FaultReached ==
    /\ fault # NoFault
    /\ fault.step \in Range(calls)
    /\ fault.step = "process_audio" =>
           /\ processed.state = "raised"
           /\ OriginalMessage(processed) = "internal failure"

\* C13: an internal failure that is not a decode, duration or validation
\* failure is answered with a 5xx status and never with a 4xx one, whichever
\* step of the pipeline raised it.
C13_InternalFailuresAre5xx ==
    (Responded /\ FaultReached) => response.status \in 500..599

\* What the handler does instead: the failure is answered 5xx exactly when
\* it is raised outside process_audio by an exception that is not a
\* ValueError, and 400 otherwise.
C13_OnlyNonValueErrorsOfDetectAre5xx ==
    (Responded /\ FaultReached) =>
        IF fault.step # "process_audio" /\ fault.error # "ValueError"
        THEN response.status = 500
        ELSE response.status = 400

\* Well-formed base64 (RFC 4648): characters of the alphabet only, in whole
\* quads, the last quad ending in at most two pads.
WellFormedBase64(text) ==
    LET n == Len(text)
        data == {i \in 1..n : text[i] = "A"}
        pad  == {i \in 1..n : text[i] = "="}
    IN  /\ n % 4 = 0
        /\ data \cup pad = 1..n
        /\ Cardinality(pad) <= 2
        /\ \A i \in pad : \A j \in data : j < i

\* C14: a body whose audio_data is not well-formed base64 is rejected with a
\* validation failure and process_audio is never called for it; a batch with
\* such a sample is rejected before any sample is handed to detect_voice.
C14_MalformedBase64RejectedBeforeProcessing ==
    /\ ~WellFormedBase64(audio_text) =>
           /\ pc # "received"
           /\ Responded =>
                  /\ response.status = 422
                  /\ calls = <<>>
                  /\ processed = NotProcessed
    /\ (\E i \in 1..Len(batch) : ~WellFormedBase64(batch[i].audio_text)) =>
           /\ pc # "batch received"
           /\ BatchResponded =>
                  /\ batch_response.status = 422
                  /\ batch_calls = <<>>

\* What the validator does: exactly the texts on which the lenient decoder
\* raises are rejected, and no text it rejects is well-formed.
C14_RejectedIffLenientDecodeRaises ==
    /\ (pc \in {"received", "responded"} /\ audio_text # NoText) =>
           (b64decode(audio_text) = "raised"
               <=> (Responded /\ response.status = 422 /\ calls = <<>>))
    /\ \A text \in Base64Texts :
           WellFormedBase64(text) => validate_base64(text) = "accepted"

----------------------------------------------------------------------------
(* The sample-level helpers                                                *)

\* C15: for every non-empty signal x, _apply_preemphasis returns y of the
\* length of x with y[0] = x[0] and y[i] = x[i] - 0.97 * x[i-1] for i >= 1
\* (values in hundredths of a sample).
C15_PreemphasisIsFirstOrderDifference ==
    (pc = "emphasized" /\ Len(SamplesOf(signal)) > 0) =>
        LET x == SamplesOf(signal)
            y == emphasized.samples
        IN  /\ emphasized.state = "returned"
            /\ Len(y) = Len(x)
            /\ y[1] = 100 * x[1]
            /\ \A i \in 2..Len(x) : y[i] = 100 * x[i] - 97 * x[i - 1]

\* A signal of three samples whose first sample is not zero was filtered.
C15_Witness ==
    /\ pc = "emphasized"
    /\ Len(SamplesOf(signal)) = 3
    /\ SamplesOf(signal)[1] # 0
    /\ SamplesOf(signal)[2] = SamplesOf(signal)[1]
    /\ emphasized.samples[2] = 3 * SamplesOf(signal)[1]

\* The number of adjacent pairs of samples with opposite sign.
OppositeSignPairs(x) ==
    Cardinality({i \in 1..(Len(x) - 1) : x[i] * x[i + 1] < 0})

\* C19: for every non-empty signal, signals with exact-zero samples
\* included, zero_crossing_rate is the number of adjacent pairs of samples
\* with opposite sign divided by the number of samples.
C19_ZcrIsShareOfOppositeSignPairs ==
    (pc = "counted" /\ Len(SamplesOf(signal)) > 0) =>
        /\ zero_crossing_rate.state = "returned"
        /\ FracEq(zero_crossing_rate.value,
                  Frac(OppositeSignPairs(SamplesOf(signal)), Len(SamplesOf(signal))))

\* What the function returns: half the summed sign steps over the number of
\* samples, which is the share of opposite-sign pairs when no sample is zero
\* and counts half a crossing for every pair with exactly one zero sample.
C19_ZcrCountsHalfCrossingsAtZeros ==
    (pc = "counted" /\ Len(SamplesOf(signal)) > 0) =>
        LET x == SamplesOf(signal)
            zero_pairs == Cardinality({i \in 1..(Len(x) - 1) :
                                          (x[i] = 0) # (x[i + 1] = 0)})
        IN  /\ zero_crossing_rate.state = "returned"
            /\ FracEq(zero_crossing_rate.value,
                      Frac(2 * OppositeSignPairs(x) + zero_pairs, 2 * Len(x)))

----------------------------------------------------------------------------
(* Language handling and shared state                                      *)

\* C16: detect_language returns "english" for every clip and sample rate;
\* detect_voice consults it only for a request without a language; a
\* language the caller supplied is the one detect scores with and the one
\* the response reports.
C16_LanguageIsCallersOrEnglish ==
    /\ \A f \in ClipFeatureVectors, rate \in {target_sample_rate, 44100} :
           detect_language(f, rate) = "english"
    /\ Responded =>
           /\ "detect_language" \in Range(calls) => request.language = NoLanguage
           /\ response.status = 200 =>
                  /\ request.language = NoLanguage =>
                         /\ "detect_language" \in Range(calls)
                         /\ language = "english"
                  /\ request.language # NoLanguage => language = request.language
                  /\ response.language_detected = language
                  /\ result.explanation.language = language
                  /\ ai_probability = _calculate_ai_probability(features, language)

\* A request that names Tamil was served: the response reports Tamil and
\* detect_language was not called.
C16_Witness ==
    /\ Responded
    /\ response.status = 200
    /\ request.language = "tamil"
    /\ response.language_detected = "tamil"
    /\ "detect_language" \notin Range(calls)
    /\ features.spectral_flatness > DefaultThresholds.spectral_flatness_threshold

\* C17: the threshold table and the language weight table are written at
\* construction only: whatever calls of detect, detect_language and
\* process_audio have run, in whatever interleaving, the tables are the
\* constructed ones, and a request's answer is the one the request gets
\* when it is served alone.
C17_SharedTablesAreNeverWritten ==
    /\ thresholds = DefaultThresholds
    /\ language_models = DefaultLanguageModels
    /\ \A w \in DOMAIN workers :
           workers[w].pc = "done" =>
               workers[w].response = detect_voice(workers[w].request, NoFault).response

\* No step of any request changes a table.
C17_NoStepWritesTheTables ==
    [][thresholds' = thresholds /\ language_models' = language_models]_vars

\* Two requests for the same clip are in flight: one has been answered with
\* a detection while the other, which names no language, is between its
\* process_audio and its detect.
C17_Witness ==
    /\ workers # NoWorkers
    /\ workers[1].pc = "done"
    /\ workers[1].response.status = 200
    /\ workers[1].request.language = "tamil"
    /\ workers[2].pc = "processed"
    /\ workers[2].language = "english"
    /\ workers[2].request.audio_data = workers[1].request.audio_data

----------------------------------------------------------------------------
(* Framing                                                                 *)

Extracted == pc = "extracted" /\ extracted.state = "returned"

\* The number of full frames of 1024 samples at hop 512: the starts 512 * k
\* with 512 * k + 1024 <= length.
FullFrames(sig) ==
    IF SignalLen(sig) < 1024 THEN 0 ELSE (SignalLen(sig) - 1024) \div 512 + 1

\* C18: shimmer, zcr_std and energy_entropy are computed over every full
\* frame of 1024 samples at hop 512; shimmer returns its fallback 0.05
\* exactly when the signal has fewer than two full frames (length < 1536),
\* zcr_std and energy_entropy return their fallback 0.0 exactly when it has
\* no full frame (length < 1024).
C18_FallbackIffTooFewFullFrames ==
    Extracted =>
        /\ FrameCount(signal) = FullFrames(signal)
        /\ extracted.features.shimmer = Fallback(500) <=> SignalLen(signal) < 1536
        /\ extracted.features.zcr_std = Fallback(0) <=> SignalLen(signal) < 1024
        /\ extracted.features.energy_entropy = Fallback(0) <=> SignalLen(signal) < 1024

\* What the loops do: range(0, length - 1024, 512) leaves out the frame that
\* ends with the last sample, so the fallbacks are taken up to and including
\* the lengths 1536 and 1024.
C18_FallbackIffTooFewLoopFrames ==
    Extracted =>
        /\ FrameCount(signal) = IF SignalLen(signal) <= 1024 THEN 0
                                ELSE (SignalLen(signal) - 1025) \div 512 + 1
        /\ extracted.features.shimmer = Fallback(500) <=> SignalLen(signal) <= 1536
        /\ extracted.features.zcr_std = Fallback(0) <=> SignalLen(signal) <= 1024
        /\ extracted.features.energy_entropy = Fallback(0) <=> SignalLen(signal) <= 1024

----------------------------------------------------------------------------
(* Classification and indicators                                           *)

\* C20: whenever detect classifies a clip as ai_generated, for every
\* language code, at least one of the five comparisons the explanation and
\* ai_indicators look at (spectral_flatness, jitter, shimmer, zcr_std,
\* harmonic_ratio) is satisfied: the explanation holds none of the fallback
\* phrases and ai_indicators, when reported, is not empty.
C20_AiClassificationHasAnIndicator ==
    (Scored /\ result.classification = "ai_generated") =>
        /\ SatisfiedFeatures(features) \cap ExplainedFeatures # {}
        /\ Range(result.explanation.reasons) \cap Range(FallbackPhrases) = {}
        /\ result.explanation.reasons # <<>>
        /\ result.has_detailed_analysis => result.ai_indicators # <<>>

\* A clip was classified ai_generated with only two of the five comparisons
\* satisfied, next to the mfcc_variance and energy_entropy rules.
C20_Witness ==
    /\ Scored
    /\ result.classification = "ai_generated"
    /\ result.has_detailed_analysis
    /\ SatisfiedFeatures(features)
           = {"spectral_flatness", "jitter", "mfcc_variance", "energy_entropy"}
    /\ Len(result.ai_indicators) = 2

----------------------------------------------------------------------------
(* The batch endpoint, all or nothing                                      *)

\* The samples of the batch for which detect_voice raises.
FailingSamples ==
    {i \in 1..Len(batch) : detect_voice(batch[i].sample, NoFault).response.status # 200}

\* C21: detect_batch hands the samples to detect_voice one after another in
\* the order of the request; if sample k fails, no sample after k is handed
\* over and the response is a single failure without results, also for the
\* samples before k that were served.
C21_BatchIsSequentialAndAllOrNothing ==
    (BatchResponded /\ validate_batch(batch) = "accepted") =>
        /\ \A i \in 1..Len(batch_calls) : batch_calls[i] = i
        /\ FailingSamples = {} =>
               /\ Len(batch_calls) = Len(batch)
               /\ batch_response.status = 200
        /\ \A k \in FailingSamples :
               (\A j \in FailingSamples : k <= j) =>
                   /\ Len(batch_calls) = k
                   /\ batch_response.status \in 400..599
                   /\ batch_response.results = <<>>
                   /\ batch_response.total_samples = 0

\* A batch of at least three samples whose first sample is served and whose
\* second fails was answered: two samples were handed over, no result came
\* back.
C21_Witness ==
    /\ BatchResponded
    /\ Len(batch) >= 3
    /\ FailingSamples # {}
    /\ 1 \notin FailingSamples
    /\ 2 \in FailingSamples
    /\ batch_calls = <<1, 2>>
    /\ batch_response.results = <<>>

----------------------------------------------------------------------------
(* AI-leaning and human-leaning labels                                     *)

\* The three features with a label on either side, with their labels and
\* thresholds.
TwoSidedFeatures ==
    { [feature |-> "jitter", ai |-> "Low pitch jitter",
       human |-> "Natural pitch variation",
       threshold |-> DefaultThresholds.jitter_threshold],
      [feature |-> "shimmer", ai |-> "Low amplitude shimmer",
       human |-> "Natural amplitude variation",
       threshold |-> DefaultThresholds.shimmer_threshold],
      [feature |-> "zcr_std", ai |-> "Consistent zero-crossing rate",
       human |-> "Variable articulation",
       threshold |-> DefaultThresholds.zero_crossing_rate_std] }

\* C22: for jitter, shimmer and zcr_std and every feature vector, the
\* AI-leaning label in ai_indicators and the human-leaning label in
\* human_indicators are never both present; when the feature equals its
\* threshold neither is present and the scorer's ai_score is the one it
\* gives the same vector with that feature on the human side.
C22_LabelsExcludeEachOther ==
    (Scored /\ result.has_detailed_analysis) =>
        \A t \in TwoSidedFeatures :
            /\ ~(/\ t.ai \in Range(result.ai_indicators)
                 /\ t.human \in Range(result.human_indicators))
            /\ features[t.feature] = t.threshold =>
                   /\ t.ai \notin Range(result.ai_indicators)
                   /\ t.human \notin Range(result.human_indicators)
                   /\ ai_probability.num
                        = ScoreAccumulators([features EXCEPT ![t.feature] = t.threshold + 1],
                                            language).ai_score

\* A vector with jitter at its threshold, shimmer below and zcr_std above
\* was scored: jitter has no label, shimmer the AI-leaning one, zcr_std the
\* human-leaning one.
C22_Witness ==
    /\ Scored
    /\ result.has_detailed_analysis
    /\ features.jitter = DefaultThresholds.jitter_threshold
    /\ "Low pitch jitter" \notin Range(result.ai_indicators)
    /\ "Natural pitch variation" \notin Range(result.human_indicators)
    /\ "Low amplitude shimmer" \in Range(result.ai_indicators)
    /\ "Variable articulation" \in Range(result.human_indicators)

====
